---- MODULE Spec2Model ----
(***************************************************************************)
(* cbBTC/USDC price monitors on Base.                                      *)
(*                                                                         *)
(*  - the three-venue monitor (Uniswap V3, Aerodrome Slipstream,           *)
(*    PancakeSwap V3) with the fee/gas adjusted arbitrage simulation and   *)
(*    the compounding budget: src/README.md, lines 166-835;                *)
(*  - the two-venue monitor (Uniswap V3, Aerodrome Slipstream) that        *)
(*    re-reads slot0 on every Swap event: src/index.js.                    *)
(*                                                                         *)
(* JavaScript numbers are modelled as extended rationals <<n, d>>:         *)
(* d > 0 is the exact rational n/d in lowest terms, <<1, 0>> is +Infinity, *)
(* <<-1, 0>> is -Infinity and <<0, 0>> is NaN.  The special values follow  *)
(* IEEE-754 as JavaScript does; rounding of finite results is not          *)
(* modelled.  Every divisor in the program is a price or a sum of          *)
(* non-negative amounts, so a zero divisor is always +0.                   *)
(***************************************************************************)
EXTENDS Integers, Sequences, FiniteSets, TLC

(* ------------------------- JavaScript numbers ------------------------- *)

AbsInt(i) == IF i < 0 THEN -i ELSE i

SgnInt(i) == IF i > 0 THEN 1 ELSE IF i < 0 THEN -1 ELSE 0

RECURSIVE GCD(_, _)
GCD(a, b) == IF b = 0 THEN a ELSE GCD(b, a % b)

\* n/d in lowest terms with a positive denominator; n/0 is an infinity or NaN
Norm(n, d) ==
  IF d = 0 THEN <<SgnInt(n), 0>>
  ELSE IF n = 0 THEN <<0, 1>>
  ELSE LET s == SgnInt(n) * SgnInt(d)
           g == GCD(AbsInt(n), AbsInt(d))
       IN  <<s * (AbsInt(n) \div g), AbsInt(d) \div g>>

Rat(n, d) == Norm(n, d)
Zero == <<0, 1>>
One == <<1, 1>>
PosInf == <<1, 0>>
NegInf == <<-1, 0>>
NaN == <<0, 0>>

IsNaN(x) == x = NaN
IsFinite(x) == x[2] > 0

Neg(x) == <<-x[1], x[2]>>

\* x + y
Add(x, y) ==
  IF IsNaN(x) \/ IsNaN(y) THEN NaN
  ELSE IF ~IsFinite(x) /\ ~IsFinite(y) THEN (IF x = y THEN x ELSE NaN)
  ELSE IF ~IsFinite(x) THEN x
  ELSE IF ~IsFinite(y) THEN y
  ELSE LET g == GCD(x[2], y[2])
           l == (x[2] \div g) * y[2]
       IN  Norm(x[1] * (l \div x[2]) + y[1] * (l \div y[2]), l)

\* x - y
Sub(x, y) == Add(x, Neg(y))

\* x * y (cross-cancelled before multiplying)
Mul(x, y) ==
  IF ~IsFinite(x) \/ ~IsFinite(y) THEN Norm(x[1] * y[1], 0)
  ELSE LET g1 == GCD(AbsInt(x[1]), y[2])
           g2 == GCD(AbsInt(y[1]), x[2])
       IN  IF x[1] = 0 \/ y[1] = 0 THEN Zero
           ELSE Norm((x[1] \div g1) * (y[1] \div g2), (x[2] \div g2) * (y[2] \div g1))

\* 1 / x, the zero being +0
Inv(x) ==
  IF x[1] > 0 THEN Norm(x[2], x[1])
  ELSE IF x[1] < 0 THEN Norm(-x[2], -x[1])
  ELSE IF x[2] = 0 THEN NaN ELSE PosInf

\* x / y
Div(x, y) ==
  IF ~IsFinite(x) /\ ~IsFinite(y) THEN NaN
  ELSE Mul(x, Inv(y))

\* x > y (false when either is NaN)
Gt(x, y) ==
  IF IsNaN(x) \/ IsNaN(y) THEN FALSE
  ELSE IF ~IsFinite(x) /\ ~IsFinite(y) THEN x[1] > y[1]
  ELSE IF ~IsFinite(x) THEN x[1] > 0
  ELSE IF ~IsFinite(y) THEN y[1] < 0
  ELSE Sub(x, y)[1] > 0

\* x >= y (false when either is NaN)
Geq(x, y) == ~IsNaN(x) /\ ~IsNaN(y) /\ ~Gt(y, x)

\* Math.abs
MathAbs(x) == <<AbsInt(x[1]), x[2]>>


(* ------------------------------ bounds -------------------------------- *)

\* raw sqrtPriceX96 samples are drawn from 0..MaxRaw
MaxRaw == 2

\* number of Swap events delivered in one run
MaxEvents == 2

\* functions applied on their own in one behaviour
MaxCalls == 2

\* binary digits a Number keeps of a BigInt (53 in the program)
MantissaBits == 2

\* raw samples of calculatePrice applied on its own
MaxSample == 9

\* the fixed-point scale of sqrtPriceX96 is 2^Q96Bits (96 in the program)
Q96Bits == 0

(* --------------------------- configuration ---------------------------- *)

\* config.tokens.cbBTC.decimals (CB_BTC_DECIMALS) and
\* config.tokens.USDC.decimals (USDC_DECIMALS)
cbBTCDecimals == 8
USDCDecimals == 6

\* a property that is not there
Undefined == <<>>

VARIABLE costs          \* config.costs

\* the two PancakeSwap entries of config.costs that the three-venue monitor
\* reads: a flat fee per leg and a gas fee, both non-negative numbers
PancakeCosts == [pancakeFixedFeeUSDC |-> Rat(1, 1), pancakeGasFeeUSDC |-> Rat(1, 1)]

\* config.costs of the monitors' runs; the values are chosen to keep the
\* exact arithmetic small
CostsOfRun ==
  [uniswapGasFeeUSDC |-> Rat(1, 1),
   aerodromeGasFeeUSDC |-> Rat(2, 1),
   aerodromeFeeBps |-> Rat(5000, 1),
   pancakeFixedFeeUSDC |-> PancakeCosts.pancakeFixedFeeUSDC,
   pancakeGasFeeUSDC |-> PancakeCosts.pancakeGasFeeUSDC]

\* UNISWAP_GAS_FEE_USDC=0 and AERODROME_GAS_FEE_USDC=0 in the environment
CostsWithoutGas ==
  [CostsOfRun EXCEPT !.uniswapGasFeeUSDC = Zero, !.aerodromeGasFeeUSDC = Zero]

uniswapGasFeeUSDC == costs.uniswapGasFeeUSDC
aerodromeGasFeeUSDC == costs.aerodromeGasFeeUSDC
aerodromeFeeBps == costs.aerodromeFeeBps
pancakeFixedFeeUSDC == costs.pancakeFixedFeeUSDC
pancakeGasFeeUSDC == costs.pancakeGasFeeUSDC

\* config.thresholds.priceChange (PRICE_CHANGE_THRESHOLD, default "0.01"):
\* the price of sample 1, so that a change equal to the threshold occurs
priceChange == Rat(1, 96)

\* ARB_OVERALL_BUDGET_USDC and ARB_BUDGET_PERCENT (both default "0")
InitialBudgets == {Zero, Rat(2, 1)}
BudgetPercents == {Zero, Rat(100, 1)}

Venues == {"Uniswap", "Aerodrome", "PancakeSwap"}

RawSamples == 0..MaxRaw

(* --------------------------- pure functions --------------------------- *)

RECURSIVE Pow(_, _)
Pow(b, e) == IF e = 0 THEN 1 ELSE b * Pow(b, e - 1)

Q96 == Pow(2, Q96Bits)

\* the number of binary digits of a natural number
RECURSIVE BitLength(_)
BitLength(n) == IF n = 0 THEN 0 ELSE 1 + BitLength(n \div 2)

\* round to nearest, ties to even: q is the kept part, r the dropped part
RoundQuotient(q, r, half) ==
  IF r > half \/ (r = half /\ q % 2 = 1) THEN q + 1 ELSE q

\* a natural number with its lowest e binary digits rounded away
RoundAway(n, e) ==
  RoundQuotient(n \div Pow(2, e), n % Pow(2, e), Pow(2, e - 1)) * Pow(2, e)

\* Number(n) of a BigInt: the nearest number of MantissaBits binary digits
NumberOfBigInt(n) ==
  IF BitLength(AbsInt(n)) <= MantissaBits THEN n
  ELSE SgnInt(n) * RoundAway(AbsInt(n), BitLength(AbsInt(n)) - MantissaBits)

\* Number(numerator) / Number(denominator) of two BigInts
BigIntRatio(numerator, denominator) ==
  Norm(NumberOfBigInt(numerator), NumberOfBigInt(denominator))

\* variant of calculatePriceWith that inverts in both branches
calculatePriceWithAlwaysInverted(sqrtPriceX96, isInverted, cbBTCDec, USDCDec) ==
  Div(One, BigIntRatio(sqrtPriceX96 * sqrtPriceX96 * Pow(10, USDCDec),
                       Q96 * Q96 * Pow(10, cbBTCDec)))

\* calculatePrice for given config.tokens.cbBTC.decimals and
\* config.tokens.USDC.decimals
calculatePriceWith(sqrtPriceX96, isInverted, cbBTCDec, USDCDec) ==
  IF isInverted
  THEN Div(One, BigIntRatio(
                  sqrtPriceX96 * sqrtPriceX96 * Pow(10, USDCDec),
                  Q96 * Q96 * Pow(10, cbBTCDec)))
  ELSE BigIntRatio(sqrtPriceX96 * sqrtPriceX96 * Pow(10, USDCDec),
                   Q96 * Q96 * Pow(10, cbBTCDec))

calculatePrice(sqrtPriceX96, isInverted) ==
  calculatePriceWith(sqrtPriceX96, isInverted, cbBTCDecimals, USDCDecimals)

\* variant of calculateAerodromePrice without the final inversion
calculateAerodromePriceNeverInverted(sqrtPriceX96, isInverted) ==
  BigIntRatio(sqrtPriceX96 * sqrtPriceX96 * Pow(10, USDCDecimals),
              Q96 * Q96 * Pow(10, cbBTCDecimals))

calculateAerodromePrice(sqrtPriceX96, isInverted) ==
  IF isInverted
  THEN Div(One, BigIntRatio(
                  sqrtPriceX96 * sqrtPriceX96 * Pow(10, USDCDecimals),
                  Q96 * Q96 * Pow(10, cbBTCDecimals)))
  ELSE BigIntRatio(sqrtPriceX96 * sqrtPriceX96 * Pow(10, USDCDecimals),
                   Q96 * Q96 * Pow(10, cbBTCDecimals))

calculateSpread(price1, price2) ==
  Mul(Div(Sub(price1, price2), price2), Rat(100, 1))

\* variant of getArbTradeSizeUSDC that sizes every trade on a budget of 2
getArbTradeSizeUSDCOfFixedBudget(overallBudget, budgetPct) ==
  Mul(Rat(2, 1), Div(budgetPct, Rat(100, 1)))

getArbTradeSizeUSDC(overallBudget, budgetPct) ==
  Mul(overallBudget, Div(budgetPct, Rat(100, 1)))

\* variant of getDexCostModel whose default case returns a model without
\* costs
getDexCostModelDefaultFree(dexName) ==
  CASE dexName = "Uniswap" ->
         [feeBps |-> Zero, fixedFeeUSDC |-> Undefined,
          gasFeeUSDC |-> uniswapGasFeeUSDC]
    [] dexName = "Aerodrome" ->
         [feeBps |-> aerodromeFeeBps, fixedFeeUSDC |-> Undefined,
          gasFeeUSDC |-> aerodromeGasFeeUSDC]
    [] dexName = "PancakeSwap" ->
         [feeBps |-> Undefined, fixedFeeUSDC |-> pancakeFixedFeeUSDC,
          gasFeeUSDC |-> pancakeGasFeeUSDC]
    [] OTHER -> [feeBps |-> Zero, fixedFeeUSDC |-> Undefined,
                 gasFeeUSDC |-> Zero]

\* default: throw new Error(`Unknown DEX: ${dexName}`)
getDexCostModel(dexName) ==
  CASE dexName = "Uniswap" ->
         [feeBps |-> Zero, fixedFeeUSDC |-> Undefined,
          gasFeeUSDC |-> uniswapGasFeeUSDC]
    [] dexName = "Aerodrome" ->
         [feeBps |-> aerodromeFeeBps, fixedFeeUSDC |-> Undefined,
          gasFeeUSDC |-> aerodromeGasFeeUSDC]
    [] dexName = "PancakeSwap" ->
         [feeBps |-> Undefined, fixedFeeUSDC |-> pancakeFixedFeeUSDC,
          gasFeeUSDC |-> pancakeGasFeeUSDC]
    [] OTHER -> [error |-> "Unknown DEX"]

\* the value of a call that threw
Threw(r) == "error" \in DOMAIN r

\* ToNumber of a property used in arithmetic: undefined becomes NaN
ToNumber(v) == IF v = Undefined THEN NaN ELSE v

totalGasCostForDirection(buyDex, sellDex) ==
  Add(ToNumber(getDexCostModel(buyDex).gasFeeUSDC),
      ToNumber(getDexCostModel(sellDex).gasFeeUSDC))

\* variant of IsFixedFee that sends every leg through the proportional branch
IsFixedFeeNever(model) == FALSE

\* the branch of a leg: model.fixedFeeUSDC !== undefined
IsFixedFee(model) == model.fixedFeeUSDC # Undefined

\* the trade fee of one leg, in USDC
LegFee(model, amountBeforeFee) ==
  IF IsFixedFee(model) THEN model.fixedFeeUSDC
  ELSE Mul(amountBeforeFee, Div(ToNumber(model.feeBps), Rat(10000, 1)))

\* variant of NetProfit with the two legs' totals exchanged
NetProfitOfLegsExchanged(usdcReceivedAfterFee, totalGasCostUSDC, usdcSpentAfterFee) ==
  Sub(Sub(usdcSpentAfterFee, totalGasCostUSDC), usdcReceivedAfterFee)

\* variant of NetProfit that leaves the gas out
NetProfitWithoutGas(usdcReceivedAfterFee, totalGasCostUSDC, usdcSpentAfterFee) ==
  Sub(usdcReceivedAfterFee, usdcSpentAfterFee)

\* netProfitUSDC from the two legs' totals and the gas
NetProfit(usdcReceivedAfterFee, totalGasCostUSDC, usdcSpentAfterFee) ==
  Sub(Sub(usdcReceivedAfterFee, totalGasCostUSDC), usdcSpentAfterFee)

\* calculateArbDirection, statement by statement; d holds the locals so far

\* the parameters and the two cost models
ArbStart(buyDex, sellDex, buyPrice, sellPrice, tradeSizeCbBTC, tradeSizeUSDC, currentBudgetUSDC) ==
  [currentBudgetUSDC |-> currentBudgetUSDC,
   tradeSizeUSDC |-> tradeSizeUSDC,
   tradeSizeCbBTC |-> tradeSizeCbBTC,
   buyPrice |-> buyPrice,
   sellPrice |-> sellPrice,
   buyDexName |-> buyDex,
   sellDexName |-> sellDex,
   buyModel |-> getDexCostModel(buyDex),
   sellModel |-> getDexCostModel(sellDex),
   usdcSpentBeforeFee |-> Zero,
   usdcSpentAfterFee |-> Zero,
   usdcReceivedBeforeFee |-> Zero,
   usdcReceivedAfterFee |-> Zero,
   buyTradeFeesUSDC |-> Zero,
   sellTradeFeesUSDC |-> Zero,
   totalGasCostUSDC |-> Zero]

ArbBuyAmount(d) ==
  [d EXCEPT !.usdcSpentBeforeFee = Mul(d.tradeSizeCbBTC, d.buyPrice)]

ArbBuyFee(d) ==
  [d EXCEPT !.buyTradeFeesUSDC = LegFee(d.buyModel, d.usdcSpentBeforeFee)]

ArbBuyLeg(d) ==
  [d EXCEPT !.usdcSpentAfterFee =
              Add(d.usdcSpentBeforeFee, d.buyTradeFeesUSDC)]

ArbSellAmount(d) ==
  [d EXCEPT !.usdcReceivedBeforeFee = Mul(d.tradeSizeCbBTC, d.sellPrice)]

ArbSellFee(d) ==
  [d EXCEPT !.sellTradeFeesUSDC = LegFee(d.sellModel, d.usdcReceivedBeforeFee)]

\* variant of ArbSellLeg that adds the fee to the proceeds
ArbSellLegAddsFee(d) ==
  [d EXCEPT !.usdcReceivedAfterFee =
              Add(d.usdcReceivedBeforeFee, d.sellTradeFeesUSDC)]

ArbSellLeg(d) ==
  [d EXCEPT !.usdcReceivedAfterFee =
              Sub(d.usdcReceivedBeforeFee, d.sellTradeFeesUSDC)]

ArbGas(d) ==
  [d EXCEPT !.totalGasCostUSDC =
              totalGasCostForDirection(d.buyDexName, d.sellDexName)]

\* the returned object, from the locals and netProfitUSDC
ArbReturn(d, netProfitUSDC) ==
  [isProfitable |-> Gt(netProfitUSDC, Zero),
   netProfitUSDC |-> netProfitUSDC,
   netProfitPct |-> Mul(Div(netProfitUSDC, d.usdcSpentAfterFee), Rat(100, 1)),
   buyDex |-> d.buyDexName,
   sellDex |-> d.sellDexName,
   details |-> d]

ArbProfit(d) ==
  ArbReturn(d, NetProfit(d.usdcReceivedAfterFee, d.totalGasCostUSDC,
                         d.usdcSpentAfterFee))

calculateArbDirection(buyDex, sellDex, buyPrice, sellPrice, tradeSizeCbBTC, tradeSizeUSDC, currentBudgetUSDC) ==
  IF Threw(getDexCostModel(buyDex)) THEN getDexCostModel(buyDex)
  ELSE IF Threw(getDexCostModel(sellDex)) THEN getDexCostModel(sellDex)
  ELSE
  ArbProfit(ArbGas(ArbSellLeg(ArbSellFee(ArbSellAmount(ArbBuyLeg(ArbBuyFee(
    ArbBuyAmount(ArbStart(buyDex, sellDex, buyPrice, sellPrice,
                          tradeSizeCbBTC, tradeSizeUSDC,
                          currentBudgetUSDC)))))))))

\* variant of BetterDirection with >= in place of >
BetterDirectionFirstOnTie(directionA, directionB) ==
  IF Geq(directionA.netProfitUSDC, directionB.netProfitUSDC)
  THEN directionA ELSE directionB

\* directionA.netProfitUSDC > directionB.netProfitUSDC ? directionA : directionB
BetterDirection(directionA, directionB) ==
  IF Gt(directionA.netProfitUSDC, directionB.netProfitUSDC)
  THEN directionA ELSE directionB

\* the two directions for a trade size in USDC
BothDirections(dex1Name, dex1Price, dex2Name, dex2Price, currentBudgetUSDC, tradeSizeUSDC) ==
  << calculateArbDirection(dex1Name, dex2Name, dex1Price, dex2Price,
                           Div(tradeSizeUSDC, dex1Price), tradeSizeUSDC,
                           currentBudgetUSDC),
     calculateArbDirection(dex2Name, dex1Name, dex2Price, dex1Price,
                           Div(tradeSizeUSDC, dex2Price), tradeSizeUSDC,
                           currentBudgetUSDC) >>

\* the returned direction of a pair of directions; an error thrown by the
\* first or by the second call propagates
ChooseDirection(directions) ==
  IF Threw(directions[1]) THEN directions[1]
  ELSE IF Threw(directions[2]) THEN directions[2]
  ELSE BetterDirection(directions[1], directions[2])

simulateArbitrageForPair(dex1Name, dex1Price, dex2Name, dex2Price, currentBudgetUSDC, budgetPct) ==
  ChooseDirection(BothDirections(dex1Name, dex1Price, dex2Name, dex2Price,
                    currentBudgetUSDC,
                    getArbTradeSizeUSDC(currentBudgetUSDC, budgetPct)))

(* ------------------- spread selection and compounding ------------------ *)

\* the spreads array of the three-venue monitor, in its fixed order
Spreads(prices) ==
  << [dex1 |-> "Uniswap", dex2 |-> "Aerodrome",
      spread |-> MathAbs(calculateSpread(prices["Aerodrome"], prices["Uniswap"])),
      price1 |-> prices["Uniswap"], price2 |-> prices["Aerodrome"]],
     [dex1 |-> "Uniswap", dex2 |-> "PancakeSwap",
      spread |-> MathAbs(calculateSpread(prices["PancakeSwap"], prices["Uniswap"])),
      price1 |-> prices["Uniswap"], price2 |-> prices["PancakeSwap"]],
     [dex1 |-> "Aerodrome", dex2 |-> "PancakeSwap",
      spread |-> MathAbs(calculateSpread(prices["PancakeSwap"], prices["Aerodrome"])),
      price1 |-> prices["Aerodrome"], price2 |-> prices["PancakeSwap"]] >>

\* variant of MaxSpreadReducer with >= in place of >
MaxSpreadReducerLastOnTie(max, curr) ==
  IF Geq(curr.spread, max.spread) THEN curr ELSE max

\* variant of MaxSpreadReducer with < in place of >
MaxSpreadReducerSmallest(max, curr) ==
  IF Gt(max.spread, curr.spread) THEN curr ELSE max

\* the reducer (max, curr) => curr.spread > max.spread ? curr : max
MaxSpreadReducer(max, curr) == IF Gt(curr.spread, max.spread) THEN curr ELSE max

\* spreads.reduce(reducer) from element i on
RECURSIVE Reduce(_, _, _)
Reduce(spreads, i, max) ==
  IF i > Len(spreads) THEN max
  ELSE Reduce(spreads, i + 1, MaxSpreadReducer(max, spreads[i]))

\* the first element is the initial accumulator of reduce
ReduceSpreads(spreads) == Reduce(spreads, 2, spreads[1])

MaxSpreadPair(prices) == ReduceSpreads(Spreads(prices))

\* variant of Compound without the profitability test
CompoundUnconditional(budget, arbResult) ==
  Add(budget, arbResult.netProfitUSDC)

\* variant of Compound that applies a profit twice
CompoundTwice(budget, arbResult) ==
  IF arbResult.isProfitable /\ Gt(arbResult.netProfitUSDC, Zero)
  THEN Add(Add(budget, arbResult.netProfitUSDC), arbResult.netProfitUSDC)
  ELSE budget

\* if (arbResult.isProfitable && arbResult.netProfitUSDC > 0) budget += netProfit
Compound(budget, arbResult) ==
  IF arbResult.isProfitable /\ Gt(arbResult.netProfitUSDC, Zero)
  THEN Add(budget, arbResult.netProfitUSDC)
  ELSE budget

\* the simulation of the selected pair
SimulatePair(maxSpreadPair, budget, budgetPct) ==
  simulateArbitrageForPair(maxSpreadPair.dex1, maxSpreadPair.price1,
                           maxSpreadPair.dex2, maxSpreadPair.price2,
                           budget, budgetPct)

\* what one run logs (pair and result) and the budget it leaves
CycleResult(maxSpreadPair, arbResult, budget) ==
  [maxSpreadPair |-> maxSpreadPair,
   arbResult |-> arbResult,
   budget |-> Compound(budget, arbResult)]

SimulateAndCompound(maxSpreadPair, budget, budgetPct) ==
  CycleResult(maxSpreadPair, SimulatePair(maxSpreadPair, budget, budgetPct),
              budget)

\* one run of findAndSimulateBestSpread: the pair, the result, the new budget
findAndSimulateBestSpread(prices, budget, budgetPct) ==
  SimulateAndCompound(MaxSpreadPair(prices), budget, budgetPct)

\* variant of ChangedSignificantly without Math.abs
ChangedUpward(newPrice, last) ==
  Gt(Sub(newPrice, last), priceChange)

\* variant of ChangedSignificantly with >= in place of >
ChangedAtLeastThreshold(newPrice, last) ==
  Geq(MathAbs(Sub(newPrice, last)), priceChange)

\* Math.abs(newPrice - lastPrice) > config.thresholds.priceChange
ChangedSignificantly(newPrice, last) ==
  Gt(MathAbs(Sub(newPrice, last)), priceChange)

(* ------------------------------- state --------------------------------- *)

VARIABLES
  monitor,            \* which program runs: "triple" (README.md) or "dual" (index.js)
  phase,              \* position of monitorPool
  usdcIsToken0,       \* the pools' token ordering: token0() is USDC
  isInverted,         \* uniswapIsInverted, aerodromeIsInverted, pancakeIsInverted
  lastPrice,          \* lastUniswapPrice, lastAerodromePrice, lastPancakePrice
  overallBudgetUSDC,  \* the compounding budget
  budgetPercent,      \* ARB_BUDGET_PERCENT
  events,             \* Swap events delivered so far
  lastCycle,          \* what the most recent step computed and logged
  slot0,              \* dual monitor: the pools' current sqrtPriceX96
  pending,            \* dual monitor: handlers suspended at await pool.slot0()
  errors,             \* errors the listeners' catch blocks have logged
  call,               \* the last direct application of a function
  storedRead          \* dual monitor: the slot0() call whose answer is stored

vars == <<costs, storedRead, call, errors, monitor, phase, usdcIsToken0, isInverted, lastPrice,
          overallBudgetUSDC, budgetPercent, events, lastCycle, slot0, pending>>

DualVenues == {"Uniswap", "Aerodrome"}

\* no function has been applied directly
NoCall == [fn |-> "none"]

NoCycle ==
  [kind |-> "none", venue |-> "", newPrice |-> Zero, priceChanged |-> FALSE,
   simulated |-> <<>>]

Init ==
  /\ monitor \in {"triple", "dual"}
  /\ phase = "uniswap"
  /\ usdcIsToken0 \in BOOLEAN
  /\ isInverted = [v \in Venues |-> FALSE]
  /\ lastPrice = [v \in Venues |-> Zero]
  /\ IF monitor = "triple"
     THEN overallBudgetUSDC \in InitialBudgets /\ budgetPercent \in BudgetPercents
     ELSE overallBudgetUSDC = Zero /\ budgetPercent = Zero
  /\ events = 0
  /\ lastCycle = NoCycle
  /\ slot0 \in [Venues -> RawSamples]
  /\ (monitor = "dual" => slot0["PancakeSwap"] = 0)
  /\ pending = {}
  /\ costs = CostsOfRun
  /\ errors = 0
  /\ call = NoCall
  /\ storedRead = [v \in Venues |-> 0]

(* --------------------------- initialization ---------------------------- *)

\* the price function each venue's code calls
PriceOf(venue, sqrtPriceX96, inverted) ==
  IF venue = "Aerodrome" THEN calculateAerodromePrice(sqrtPriceX96, inverted)
  ELSE calculatePrice(sqrtPriceX96, inverted)

\* token0(), token1() and slot0() of one pool: ordering and initial price
InitVenue(venue) ==
  /\ isInverted' = [isInverted EXCEPT ![venue] = usdcIsToken0]
  /\ lastPrice' = [lastPrice EXCEPT
                     ![venue] = PriceOf(venue, slot0[venue], usdcIsToken0)]

InitUniswap ==
  /\ phase = "uniswap"
  /\ InitVenue("Uniswap")
  /\ phase' = "aerodrome"
  /\ UNCHANGED <<costs, storedRead, call, errors, monitor, usdcIsToken0, overallBudgetUSDC, budgetPercent,
                 events, lastCycle, slot0, pending>>

\* variant of InitAerodrome that registers the listeners after the second
\* read in the triple monitor too
InitAerodromeThenMonitoring ==
  /\ phase = "aerodrome"
  /\ InitVenue("Aerodrome")
  /\ phase' = "monitoring"
  /\ UNCHANGED <<costs, storedRead, call, errors, monitor, usdcIsToken0,
                 overallBudgetUSDC, budgetPercent, events, lastCycle, slot0,
                 pending>>

\* in the dual monitor the listeners are registered right after this read
InitAerodrome ==
  /\ phase = "aerodrome"
  /\ InitVenue("Aerodrome")
  /\ phase' = IF monitor = "dual" THEN "monitoring" ELSE "pancake"
  /\ UNCHANGED <<costs, storedRead, call, errors, monitor, usdcIsToken0, overallBudgetUSDC, budgetPercent,
                 events, lastCycle, slot0, pending>>

\* the last read of the triple monitor, then (without suspension) the initial
\* spread analysis, the initial simulation, its compounding and the
\* registration of the three listeners
InitPancake ==
  /\ phase = "pancake"
  /\ InitVenue("PancakeSwap")
  /\ \E r \in {findAndSimulateBestSpread(lastPrice', overallBudgetUSDC,
                                          budgetPercent)} :
         /\ overallBudgetUSDC' = r.budget
         /\ lastCycle' = [kind |-> "init", venue |-> "PancakeSwap",
                          newPrice |-> lastPrice'["PancakeSwap"],
                          priceChanged |-> TRUE,
                          simulated |-> <<[maxSpreadPair |-> r.maxSpreadPair,
                                           arbResult |-> r.arbResult]>>]
  /\ phase' = "monitoring"
  /\ UNCHANGED <<costs, storedRead, call, errors, monitor, usdcIsToken0, budgetPercent, events, slot0, pending>>

\* an awaited call of the initialization rejects: catch, process.exit(1)
InitFail ==
  /\ phase \in {"uniswap", "aerodrome", "pancake"}
  /\ phase' = "exited"
  /\ UNCHANGED <<costs, storedRead, call, errors, monitor, usdcIsToken0, isInverted, lastPrice,
                 overallBudgetUSDC, budgetPercent, events, lastCycle, slot0,
                 pending>>

(* ---------------- Swap listeners of the triple monitor ------------------ *)

\* variant of SwapListener that stores the price and leaves the simulation
\* to a later turn
SwapListenerStoreOnly(venue, newPrice) ==
      IF ChangedSignificantly(newPrice, lastPrice[venue])
      THEN /\ lastPrice' = [lastPrice EXCEPT ![venue] = newPrice]
           /\ lastCycle' = [kind |-> "swap", venue |-> venue,
                            newPrice |-> newPrice, priceChanged |-> TRUE,
                            simulated |-> <<>>]
           /\ UNCHANGED overallBudgetUSDC
      ELSE /\ lastCycle' = [kind |-> "swap", venue |-> venue,
                            newPrice |-> newPrice, priceChanged |-> FALSE,
                            simulated |-> <<>>]
           /\ UNCHANGED <<lastPrice, overallBudgetUSDC>>

\* variant of SwapListener that simulates on every event
SwapListenerAlwaysSimulate(venue, newPrice) ==
  /\ lastPrice' = IF ChangedSignificantly(newPrice, lastPrice[venue])
                  THEN [lastPrice EXCEPT ![venue] = newPrice]
                  ELSE lastPrice
  /\ \E r \in {findAndSimulateBestSpread(lastPrice', overallBudgetUSDC,
                                          budgetPercent)} :
         /\ overallBudgetUSDC' = r.budget
         /\ lastCycle' =
              [kind |-> "swap", venue |-> venue, newPrice |-> newPrice,
               priceChanged |-> ChangedSignificantly(newPrice, lastPrice[venue]),
               simulated |-> <<[maxSpreadPair |-> r.maxSpreadPair,
                                arbResult |-> r.arbResult]>>]

\* variant of SwapListener that runs the spread analysis and the simulation
\* before it stores the new price
SwapListenerSimulatesFirst(venue, newPrice) ==
      IF ChangedSignificantly(newPrice, lastPrice[venue])
      THEN /\ lastPrice' = [lastPrice EXCEPT ![venue] = newPrice]
           /\ \E r \in {findAndSimulateBestSpread(lastPrice,
                         overallBudgetUSDC, budgetPercent)} :
                  /\ overallBudgetUSDC' = r.budget
                  /\ lastCycle' =
                       [kind |-> "swap", venue |-> venue,
                        newPrice |-> newPrice, priceChanged |-> TRUE,
                        simulated |-> <<[maxSpreadPair |-> r.maxSpreadPair,
                                         arbResult |-> r.arbResult]>>]
      ELSE /\ lastCycle' = [kind |-> "swap", venue |-> venue,
                            newPrice |-> newPrice, priceChanged |-> FALSE,
                            simulated |-> <<>>]
           /\ UNCHANGED <<lastPrice, overallBudgetUSDC>>

\* variant of SwapListener in which the venues share one price variable
SwapListenerSharedPrice(venue, newPrice) ==
      IF ChangedSignificantly(newPrice, lastPrice[venue])
      THEN /\ lastPrice' = [v \in Venues |-> newPrice]
           /\ \E r \in {findAndSimulateBestSpread(lastPrice',
                         overallBudgetUSDC, budgetPercent)} :
                  /\ overallBudgetUSDC' = r.budget
                  /\ lastCycle' =
                       [kind |-> "swap", venue |-> venue,
                        newPrice |-> newPrice, priceChanged |-> TRUE,
                        simulated |-> <<[maxSpreadPair |-> r.maxSpreadPair,
                                         arbResult |-> r.arbResult]>>]
      ELSE /\ lastCycle' = [kind |-> "swap", venue |-> venue,
                            newPrice |-> newPrice, priceChanged |-> FALSE,
                            simulated |-> <<>>]
           /\ UNCHANGED <<lastPrice, overallBudgetUSDC>>

\* the body of one listener: derive, compare, store, simulate, compound
SwapListener(venue, newPrice) ==
      IF ChangedSignificantly(newPrice, lastPrice[venue])
      THEN /\ lastPrice' = [lastPrice EXCEPT ![venue] = newPrice]
           /\ \E r \in {findAndSimulateBestSpread(lastPrice',
                         overallBudgetUSDC, budgetPercent)} :
                  /\ overallBudgetUSDC' = r.budget
                  /\ lastCycle' =
                       [kind |-> "swap", venue |-> venue,
                        newPrice |-> newPrice, priceChanged |-> TRUE,
                        simulated |-> <<[maxSpreadPair |-> r.maxSpreadPair,
                                         arbResult |-> r.arbResult]>>]
      ELSE /\ lastCycle' = [kind |-> "swap", venue |-> venue,
                            newPrice |-> newPrice, priceChanged |-> FALSE,
                            simulated |-> <<>>]
           /\ UNCHANGED <<lastPrice, overallBudgetUSDC>>

\* a Swap event of the pool reaches its listener (triple monitor) with a
\* sqrtPriceX96 out of the given samples
SwapEventOf(venue, samples) ==
  /\ monitor = "triple"
  /\ phase = "monitoring"
  /\ events < MaxEvents
  /\ \E sqrtPriceX96 \in samples :
       /\ slot0' = [slot0 EXCEPT ![venue] = sqrtPriceX96]
       /\ SwapListener(venue,
                       PriceOf(venue, sqrtPriceX96, isInverted[venue]))
  /\ events' = events + 1
  /\ UNCHANGED <<costs, storedRead, call, errors, monitor, phase, usdcIsToken0, isInverted,
                 budgetPercent, pending>>

\* the pools deliver a uint160
SwapEvent(venue) == SwapEventOf(venue, RawSamples)

UniswapSwap == SwapEvent("Uniswap")

AerodromeSwap == SwapEvent("Aerodrome")

PancakeSwap == SwapEvent("PancakeSwap")

(* ----------------- Swap listeners of the dual monitor ------------------- *)

\* a Swap event reaches its listener, which calls pool.slot0() and suspends
DualSwapEvent(venue) ==
  /\ monitor = "dual"
  /\ phase = "monitoring"
  /\ events < MaxEvents
  /\ \E sqrtPriceX96 \in RawSamples :
       slot0' = [slot0 EXCEPT ![venue] = sqrtPriceX96]
  /\ pending' = pending \cup {[id |-> events + 1, venue |-> venue,
                               served |-> FALSE, sqrtPriceX96 |-> 0]}
  /\ events' = events + 1
  /\ UNCHANGED <<costs, storedRead, call, errors, monitor, phase, usdcIsToken0, isInverted, lastPrice,
                 overallBudgetUSDC, budgetPercent, lastCycle>>

DualUniswapSwap == DualSwapEvent("Uniswap")

DualAerodromeSwap == DualSwapEvent("Aerodrome")

\* the node answers a slot0() call with the pool's price at that moment
Slot0Served ==
  \E h \in pending :
    /\ ~h.served
    /\ pending' = (pending \ {h}) \cup
                    {[h EXCEPT !.served = TRUE,
                               !.sqrtPriceX96 = slot0[h.venue]]}
    /\ UNCHANGED <<costs, storedRead, call, errors, monitor, phase, usdcIsToken0, isInverted, lastPrice,
                   overallBudgetUSDC, budgetPercent, events, lastCycle, slot0>>

\* the rest of a dual listener after await pool.slot0(): derive, compare, store
DualListenerResume ==
  \E h \in pending :
    /\ h.served
    /\ \E newPrice \in {PriceOf(h.venue, h.sqrtPriceX96, isInverted[h.venue])} :
       \E changed \in {ChangedSignificantly(newPrice, lastPrice[h.venue])} :
           /\ lastPrice' = IF changed
                           THEN [lastPrice EXCEPT ![h.venue] = newPrice]
                           ELSE lastPrice
           /\ storedRead' = IF changed
                            THEN [storedRead EXCEPT ![h.venue] = h.id]
                            ELSE storedRead
           /\ lastCycle' = [kind |-> "swap", venue |-> h.venue,
                            newPrice |-> newPrice, priceChanged |-> changed,
                            simulated |-> <<>>]
    /\ pending' = pending \ {h}
    /\ UNCHANGED <<costs, call, errors, monitor, phase, usdcIsToken0, isInverted,
                   overallBudgetUSDC, budgetPercent, events, slot0>>

\* variant of Slot0Rejected whose catch ends the process, as the catch of
\* the initialization does
Slot0RejectedExits ==
  \E h \in pending :
    /\ ~h.served
    /\ pending' = pending \ {h}
    /\ errors' = errors + 1
    /\ phase' = "exited"
    /\ lastCycle' = [kind |-> "error", venue |-> h.venue, newPrice |-> Zero,
                     priceChanged |-> FALSE, simulated |-> <<>>]
    /\ UNCHANGED <<costs, storedRead, call, monitor, usdcIsToken0, isInverted, lastPrice,
                   overallBudgetUSDC, budgetPercent, events, slot0>>

\* await pool.slot0() rejects: the listener's catch logs the error
Slot0Rejected ==
  \E h \in pending :
    /\ ~h.served
    /\ pending' = pending \ {h}
    /\ errors' = errors + 1
    /\ lastCycle' = [kind |-> "error", venue |-> h.venue, newPrice |-> Zero,
                     priceChanged |-> FALSE, simulated |-> <<>>]
    /\ UNCHANGED <<costs, storedRead, call, monitor, phase, usdcIsToken0, isInverted, lastPrice,
                   overallBudgetUSDC, budgetPercent, events, slot0>>

(* ------------- Swap events whose sample is not a uint160 --------------- *)

\* a negative integer: BigInt() accepts it
NegativeSamples == {-1}

NegativeSwapEvent(venue) == SwapEventOf(venue, NegativeSamples)

\* a sample that is not an integer: BigInt() throws inside calculatePrice
\* and the listener's catch logs the error
MalformedSwapEvent(venue) ==
  /\ monitor = "triple"
  /\ phase = "monitoring"
  /\ events < MaxEvents
  /\ events' = events + 1
  /\ errors' = errors + 1
  /\ lastCycle' = [kind |-> "error", venue |-> venue, newPrice |-> Zero,
                   priceChanged |-> FALSE, simulated |-> <<>>]
  /\ UNCHANGED <<costs, storedRead, call, monitor, phase, usdcIsToken0, isInverted,
                 lastPrice, overallBudgetUSDC, budgetPercent, slot0, pending>>

NegativeSwap == \E venue \in Venues : NegativeSwapEvent(venue)

MalformedSwap == \E venue \in Venues : MalformedSwapEvent(venue)

(* --------------------------- specification ----------------------------- *)

Next ==
  \/ InitUniswap
  \/ InitAerodrome
  \/ InitPancake
  \/ InitFail
  \/ UniswapSwap
  \/ AerodromeSwap
  \/ PancakeSwap
  \/ DualUniswapSwap
  \/ DualAerodromeSwap
  \/ Slot0Served
  \/ DualListenerResume
  \/ Slot0Rejected

Spec == Init /\ [][Next]_vars

\* the monitors when the samples are not validated by the ABI decoding;
\* one budget and one percent
InitAnyInput ==
  /\ Init
  /\ (monitor = "triple" =>
        overallBudgetUSDC = Rat(2, 1) /\ budgetPercent = Rat(100, 1))

NextAnyInput ==
  \/ Next
  \/ NegativeSwap
  \/ MalformedSwap

SpecAnyInput == InitAnyInput /\ [][NextAnyInput]_vars

(* ------------- the triple monitor on pools with liquidity -------------- *)

\* the samples of pools that hold liquidity are positive
PositiveSamples == 1..(MaxRaw + 1)

InitTrading ==
  /\ monitor = "triple"
  /\ phase = "uniswap"
  /\ usdcIsToken0 \in BOOLEAN
  /\ isInverted = [v \in Venues |-> FALSE]
  /\ lastPrice = [v \in Venues |-> Zero]
  /\ overallBudgetUSDC = Rat(2, 1)
  /\ budgetPercent = Rat(100, 1)
  /\ events = 0
  /\ lastCycle = NoCycle
  /\ slot0 \in [Venues -> PositiveSamples]
  /\ pending = {}
  /\ costs = CostsOfRun
  /\ errors = 0
  /\ call = NoCall
  /\ storedRead = [v \in Venues |-> 0]

TradingSwap == \E venue \in Venues : SwapEventOf(venue, PositiveSamples)

NextTrading ==
  \/ InitUniswap
  \/ InitAerodrome
  \/ InitPancake
  \/ InitFail
  \/ TradingSwap

SpecTrading == InitTrading /\ [][NextTrading]_vars

(* ------------------ the functions applied on their own ------------------ *)

\* venue names a caller may pass: the three of the cost models and another
DexNames == Venues \cup {"SushiSwap"}

\* prices a caller may pass
CallPrices == {Rat(1, 1), Rat(2, 1)}

\* the three prices of a spread analysis
SpreadPrices == {Rat(89900, 1), Rat(90000, 1), Rat(90200, 1)}

InitCalls ==
  /\ monitor = "none"
  /\ phase = "monitoring"
  /\ costs \in {CostsOfRun, CostsWithoutGas}
  /\ overallBudgetUSDC \in InitialBudgets
  /\ budgetPercent \in BudgetPercents
  /\ usdcIsToken0 = FALSE
  /\ isInverted = [v \in Venues |-> FALSE]
  /\ lastPrice = [v \in Venues |-> Zero]
  /\ events = 0
  /\ lastCycle = NoCycle
  /\ slot0 = [v \in Venues |-> 0]
  /\ pending = {}
  /\ errors = 0
  /\ call = NoCall
  /\ storedRead = [v \in Venues |-> 0]

\* simulateArbitrageForPair applied, and what its caller does with the
\* result: compounding, which a thrown error skips
CallSimulate ==
  /\ events < MaxCalls
  /\ \E dex1Name \in DexNames, dex2Name \in DexNames :
     \E dex1Price \in CallPrices, dex2Price \in CallPrices :
     \E r \in {simulateArbitrageForPair(dex1Name, dex1Price, dex2Name,
                  dex2Price, overallBudgetUSDC, budgetPercent)} :
       /\ call' = [fn |-> "simulateArbitrageForPair",
                   dex1Name |-> dex1Name, dex1Price |-> dex1Price,
                   dex2Name |-> dex2Name, dex2Price |-> dex2Price,
                   currentBudgetUSDC |-> overallBudgetUSDC,
                   result |-> r]
       /\ overallBudgetUSDC' = IF Threw(r) THEN overallBudgetUSDC
                               ELSE Compound(overallBudgetUSDC, r)
  /\ events' = events + 1
  /\ UNCHANGED <<costs, storedRead, errors, monitor, phase, usdcIsToken0, isInverted,
                 lastPrice, budgetPercent, lastCycle, slot0, pending>>

\* the spread analysis applied to three prices
CallBestSpread ==
  /\ events < MaxCalls
  /\ \E prices \in [Venues -> SpreadPrices] :
       call' = [fn |-> "maxSpreadPair", prices |-> prices,
                result |-> MaxSpreadPair(prices)]
  /\ events' = events + 1
  /\ UNCHANGED <<costs, storedRead, errors, monitor, phase, usdcIsToken0, isInverted,
                 lastPrice, overallBudgetUSDC, budgetPercent, lastCycle,
                 slot0, pending>>

\* what the last application of calculatePrice was given and returned
PriceCall(c) ==
  IF c.fn = "calculatePrice"
  THEN [fn |-> "calculatePrice", sqrtPriceX96 |-> c.sqrtPriceX96,
        isInverted |-> c.isInverted, result |-> c.result]
  ELSE NoCall

\* calculatePrice applied to a sample, with the configured decimals
CallCalculatePrice ==
  /\ events < MaxCalls
  /\ \E sqrtPriceX96 \in 0..MaxSample, inverted \in BOOLEAN :
       call' = [fn |-> "calculatePrice", sqrtPriceX96 |-> sqrtPriceX96,
                isInverted |-> inverted,
                result |-> calculatePrice(sqrtPriceX96, inverted),
                before |-> PriceCall(call)]
  /\ events' = events + 1
  /\ UNCHANGED <<costs, storedRead, errors, monitor, phase, usdcIsToken0, isInverted,
                 lastPrice, overallBudgetUSDC, budgetPercent, lastCycle,
                 slot0, pending>>

\* calculateAerodromePrice applied to a sample
CallCalculateAerodromePrice ==
  /\ events < MaxCalls
  /\ \E sqrtPriceX96 \in 0..MaxSample, inverted \in BOOLEAN :
       call' = [fn |-> "calculateAerodromePrice",
                sqrtPriceX96 |-> sqrtPriceX96, isInverted |-> inverted,
                result |-> calculateAerodromePrice(sqrtPriceX96, inverted),
                before |-> PriceCall(call)]
  /\ events' = events + 1
  /\ UNCHANGED <<costs, storedRead, errors, monitor, phase, usdcIsToken0, isInverted,
                 lastPrice, overallBudgetUSDC, budgetPercent, lastCycle,
                 slot0, pending>>

\* decimals of the two tokens that a configuration may give
TokenDecimals == {USDCDecimals, cbBTCDecimals}

\* calculatePrice applied under a configuration of the tokens' decimals
CallPriceWithDecimals ==
  /\ events < MaxCalls
  /\ \E sqrtPriceX96 \in RawSamples, inverted \in BOOLEAN :
     \E cbBTCDec \in TokenDecimals, USDCDec \in TokenDecimals :
       call' = [fn |-> "calculatePriceWith", sqrtPriceX96 |-> sqrtPriceX96,
                isInverted |-> inverted,
                cbBTCDec |-> cbBTCDec, USDCDec |-> USDCDec,
                result |-> calculatePriceWith(sqrtPriceX96, inverted,
                                              cbBTCDec, USDCDec)]
  /\ events' = events + 1
  /\ UNCHANGED <<costs, storedRead, errors, monitor, phase, usdcIsToken0, isInverted,
                 lastPrice, overallBudgetUSDC, budgetPercent, lastCycle,
                 slot0, pending>>

NextCalls ==
  \/ CallSimulate
  \/ CallBestSpread
  \/ CallCalculatePrice
  \/ CallCalculateAerodromePrice
  \/ CallPriceWithDecimals

SpecCalls == InitCalls /\ [][NextCalls]_vars

(* ------------------------------ properties ----------------------------- *)

\* a step in which a simulation ran: the initial one or a listener's
SimulationStep ==
  /\ lastCycle'.simulated # <<>>
  /\ \/ phase = "pancake" /\ phase' = "monitoring"
     \/ events' = events + 1

\* a step that is one whole event cycle of the triple monitor
TripleCycleStep == monitor = "triple" /\ events' = events + 1

\* a step that is the cycle of a dual listener, after its slot0() answer
DualCycleStep ==
  /\ monitor = "dual"
  /\ pending' # pending
  /\ events' = events
  /\ lastCycle'.kind = "swap"
  /\ \E h \in pending : h.served /\ pending' = pending \ {h}
                        /\ h.venue = lastCycle'.venue

\* C1: the compounding budget never decreases: after every step its value
\* is greater than or equal to its value before the step
C1_BudgetNeverDecreases ==
  [][Geq(overallBudgetUSDC', overallBudgetUSDC)]_vars

\* a listener's simulation was profitable and the budget is above the
\* budget that simulation started from
C1_Witness ==
  /\ lastCycle.kind = "swap"
  /\ lastCycle.simulated # <<>>
  /\ lastCycle.simulated[1].arbResult.isProfitable
  /\ Gt(overallBudgetUSDC,
        lastCycle.simulated[1].arbResult.details.currentBudgetUSDC)

\* what a step may do to the budget
C2_BudgetStep ==
  /\ (overallBudgetUSDC' # overallBudgetUSDC => SimulationStep)
  /\ (SimulationStep =>
        /\ lastCycle'.simulated[1].arbResult.details.currentBudgetUSDC
             = overallBudgetUSDC
        /\ IF Gt(lastCycle'.simulated[1].arbResult.netProfitUSDC, Zero)
           THEN overallBudgetUSDC' =
                  Add(overallBudgetUSDC,
                      lastCycle'.simulated[1].arbResult.netProfitUSDC)
           ELSE overallBudgetUSDC' = overallBudgetUSDC)

\* C2: a step changes the budget only if a simulation ran in it on the
\* budget before the step; when its netProfit is greater than 0 the budget
\* after the step is exactly budget + netProfit, and otherwise (netProfit
\* zero, negative or not a number) the budget is unchanged
C2_BudgetChangesOnlyByProfit == [][C2_BudgetStep]_vars

\* a listener's simulation ended with a loss and left the positive budget
\* it started from (a trade was sized: budget and percent are not zero)
C2_Witness ==
  /\ lastCycle.kind = "swap"
  /\ lastCycle.simulated # <<>>
  /\ Gt(Zero, lastCycle.simulated[1].arbResult.netProfitUSDC)
  /\ Gt(lastCycle.simulated[1].arbResult.details.tradeSizeUSDC, Zero)
  /\ overallBudgetUSDC
       = lastCycle.simulated[1].arbResult.details.currentBudgetUSDC

\* what a step that changes a stored price or the budget must be
C3_CycleStep ==
  /\ (monitor = "triple" => pending' = {})
  /\ ((phase = "monitoring"
       /\ (lastPrice' # lastPrice \/ overallBudgetUSDC' # overallBudgetUSDC))
      => /\ TripleCycleStep \/ DualCycleStep
         /\ lastCycle'.priceChanged
         /\ lastCycle'.venue \in Venues
         /\ lastPrice' = [lastPrice EXCEPT
                            ![lastCycle'.venue] = lastCycle'.newPrice]
         /\ IF monitor = "triple"
            THEN /\ Len(lastCycle'.simulated) = 1
                 /\ lastCycle'.simulated[1].maxSpreadPair
                      = MaxSpreadPair(lastPrice')
                 /\ lastCycle'.simulated[1].arbResult.details.currentBudgetUSDC
                      = overallBudgetUSDC
                 /\ overallBudgetUSDC' =
                      IF Gt(lastCycle'.simulated[1].arbResult.netProfitUSDC,
                            Zero)
                      THEN Add(overallBudgetUSDC,
                               lastCycle'.simulated[1].arbResult.netProfitUSDC)
                      ELSE overallBudgetUSDC
            ELSE overallBudgetUSDC' = overallBudgetUSDC)

C4_CycleStep ==
  (TripleCycleStep \/ DualCycleStep) =>
    /\ lastCycle'.kind = "swap"
    /\ lastCycle'.venue \in Venues
    /\ (monitor = "triple" =>
          lastCycle'.newPrice =
            PriceOf(lastCycle'.venue, slot0'[lastCycle'.venue],
                    isInverted[lastCycle'.venue]))
    /\ lastPrice'[lastCycle'.venue] =
         IF Gt(MathAbs(Sub(lastCycle'.newPrice, lastPrice[lastCycle'.venue])),
               priceChange)
         THEN lastCycle'.newPrice
         ELSE lastPrice[lastCycle'.venue]

\* C4: in an event cycle the venue's stored price is replaced by the newly
\* derived price exactly when |new - stored| is strictly greater than the
\* threshold; otherwise the stored price keeps its value
C4_StoredIffAboveThreshold == [][C4_CycleStep]_vars

\* an event's price differs from the stored price by exactly the threshold
\* or less, and the stored price kept its value
C4_Witness ==
  /\ lastCycle.kind = "swap"
  /\ ~lastCycle.priceChanged
  /\ lastCycle.newPrice # lastPrice[lastCycle.venue]
  /\ IsFinite(lastCycle.newPrice)

\* when an event cycle of the triple monitor simulates
C5_CycleStep ==
  TripleCycleStep =>
    /\ lastCycle'.venue \in Venues
    /\ IF lastPrice'[lastCycle'.venue] # lastPrice[lastCycle'.venue]
       THEN Len(lastCycle'.simulated) = 1
       ELSE /\ Len(lastCycle'.simulated) = 0
            /\ lastPrice' = lastPrice
            /\ overallBudgetUSDC' = overallBudgetUSDC

\* C5: in an event cycle of the triple monitor exactly one simulation runs
\* if the cycle changed the venue's stored price, and none runs otherwise;
\* a cycle without a price change leaves the budget unchanged
C5_SimulationIffPriceChanged == [][C5_CycleStep]_vars

\* an event of the triple monitor did not change the stored price and ran
\* no simulation, although the budget and the percent size a trade
C5_Witness ==
  /\ monitor = "triple"
  /\ lastCycle.kind = "swap"
  /\ ~lastCycle.priceChanged
  /\ lastCycle.simulated = <<>>
  /\ Gt(overallBudgetUSDC, Zero)
  /\ Gt(budgetPercent, Zero)
\* the simulation the most recent step ran, if it ran one
Simulated == lastCycle.simulated # <<>>

SimPair == lastCycle.simulated[1].maxSpreadPair

SimResult == lastCycle.simulated[1].arbResult

\* the two directions of that simulation, evaluated again from the selected
\* pair and the budget the simulation started from
SimDirections ==
  BothDirections(SimPair.dex1, SimPair.price1, SimPair.dex2, SimPair.price2,
                 SimResult.details.currentBudgetUSDC,
                 SimResult.details.tradeSizeUSDC)

\* C6: the pair selected for a simulation is one of the three pairs in the
\* order Uniswap-Aerodrome, Uniswap-PancakeSwap, Aerodrome-PancakeSwap, no
\* pair has an absolute spread greater than the selected pair's, and no
\* pair earlier in the order has an absolute spread greater than or equal
\* to it (comparisons are those of the program's numbers: a spread that is
\* not a number is neither greater than nor equal to any other)
C6_GreatestSpreadEarliestOnTie ==
  Simulated =>
    \E k \in 1..3 :
      /\ SimPair = Spreads(lastPrice)[k]
      /\ \A j \in 1..3 :
           ~Gt(Spreads(lastPrice)[j].spread, Spreads(lastPrice)[k].spread)
      /\ \A j \in 1..(k - 1) :
           ~Geq(Spreads(lastPrice)[j].spread, Spreads(lastPrice)[k].spread)

\* the first two pairs tie on the greatest spread, the third is smaller,
\* and the first pair was selected
C6_Witness ==
  /\ Simulated
  /\ lastCycle.kind = "swap"
  /\ SimPair.dex1 = "Uniswap" /\ SimPair.dex2 = "Aerodrome"
  /\ IsFinite(Spreads(lastPrice)[1].spread)
  /\ Spreads(lastPrice)[2].spread = Spreads(lastPrice)[1].spread
  /\ Gt(Spreads(lastPrice)[1].spread, Spreads(lastPrice)[3].spread)

\* C7 as stated: the simulation returns the direction with the higher
\* netProfit, and the first-evaluated direction (buy on the first venue of
\* the pair, sell on the second) when both have equal netProfit
C7_TieReturnsFirstDirection ==
  Simulated =>
    /\ (Gt(SimDirections[1].netProfitUSDC, SimDirections[2].netProfitUSDC)
          => SimResult = SimDirections[1])
    /\ (Gt(SimDirections[2].netProfitUSDC, SimDirections[1].netProfitUSDC)
          => SimResult = SimDirections[2])
    /\ ((SimDirections[1].netProfitUSDC = SimDirections[2].netProfitUSDC
         /\ ~IsNaN(SimDirections[1].netProfitUSDC))
          => SimResult = SimDirections[1])

\* C7 as amended: the simulation returns the first-evaluated direction only
\* when its netProfit is strictly greater than the mirror direction's, and
\* the second-evaluated direction (buy on the second venue of the pair,
\* sell on the first) in every other case, equal netProfit included
C7_TieReturnsSecondDirection ==
  Simulated =>
    SimResult = IF Gt(SimDirections[1].netProfitUSDC,
                      SimDirections[2].netProfitUSDC)
                THEN SimDirections[1]
                ELSE SimDirections[2]

\* both directions of a listener's simulation have the same netProfit and
\* the returned direction buys on the second venue of the pair
C7_Witness ==
  /\ Simulated
  /\ lastCycle.kind = "swap"
  /\ IsFinite(SimDirections[1].netProfitUSDC)
  /\ SimDirections[1].netProfitUSDC = SimDirections[2].netProfitUSDC
  /\ SimResult.buyDex = SimPair.dex2
  /\ SimResult.sellDex = SimPair.dex1

\* the fee of one leg as the claim states it: the flat fee of the fixed-fee
\* venue, legAmount * feeBps / 10000 of a proportional venue
StatedFee(venue, legAmount) ==
  CASE venue = "PancakeSwap" -> pancakeFixedFeeUSDC
    [] venue = "Aerodrome" ->
         Div(Mul(legAmount, aerodromeFeeBps), Rat(10000, 1))
    [] venue = "Uniswap" -> Div(Mul(legAmount, Zero), Rat(10000, 1))

StatedGas(venue) ==
  CASE venue = "PancakeSwap" -> pancakeGasFeeUSDC
    [] venue = "Aerodrome" -> aerodromeGasFeeUSDC
    [] venue = "Uniswap" -> uniswapGasFeeUSDC

\* tradeSizeBase = budget * (pct / 100) / buyPrice
StatedTradeSize(budget, pct, buyPrice) ==
  Div(Mul(budget, Div(pct, Rat(100, 1))), buyPrice)

\* gross spread - buy fee - sell fee - total gas for a trade of that size
StatedNetProfit(buyDex, sellDex, buyPrice, sellPrice, size) ==
  Sub(Sub(Sub(Sub(Mul(size, sellPrice), Mul(size, buyPrice)),
              StatedFee(buyDex, Mul(size, buyPrice))),
          StatedFee(sellDex, Mul(size, sellPrice))),
      Add(StatedGas(buyDex), StatedGas(sellDex)))

C8_Direction(r) ==
  /\ r.details.tradeSizeCbBTC =
       StatedTradeSize(r.details.currentBudgetUSDC, budgetPercent,
                       r.details.buyPrice)
  /\ r.netProfitUSDC =
       Sub(Sub(r.details.usdcReceivedAfterFee, r.details.totalGasCostUSDC),
           r.details.usdcSpentAfterFee)
  /\ r.netProfitUSDC =
       StatedNetProfit(r.buyDex, r.sellDex, r.details.buyPrice,
                       r.details.sellPrice,
                       StatedTradeSize(r.details.currentBudgetUSDC,
                                       budgetPercent, r.details.buyPrice))

\* C8: for both directions of every simulation, netProfit equals
\* (receivedAfterFee - totalGas) - spentAfterFee and equals gross spread -
\* buy fee - sell fee - total gas, with the proportional fee legAmount *
\* feeBps / 10000, the fixed fee the flat fee, and the trade size
\* budget * (pct / 100) / buyPrice
C8_NetProfitFormula ==
  Simulated => C8_Direction(SimDirections[1]) /\ C8_Direction(SimDirections[2])

\* a profitable result that paid a proportional fee on the buy leg and the
\* flat fee on the sell leg
C8_Witness ==
  /\ Simulated
  /\ SimResult.isProfitable
  /\ IsFinite(SimResult.netProfitUSDC)
  /\ SimResult.buyDex = "Aerodrome"
  /\ SimResult.sellDex = "PancakeSwap"
  /\ Gt(SimResult.details.buyTradeFeesUSDC, Zero)
  /\ Gt(SimResult.details.sellTradeFeesUSDC, Zero)

\* a defined number that is not negative
IsNonNegativeNumber(v) == v # Undefined /\ ~IsNaN(v) /\ Geq(v, Zero)

ProportionalShape(model) ==
  /\ IsNonNegativeNumber(model.feeBps)
  /\ IsNonNegativeNumber(model.gasFeeUSDC)
  /\ model.fixedFeeUSDC = Undefined

FixedShape(model) ==
  /\ IsNonNegativeNumber(model.fixedFeeUSDC)
  /\ IsNonNegativeNumber(model.gasFeeUSDC)
  /\ model.feeBps = Undefined

\* the two legs of a direction are charged by their venues' shapes
C9_Direction(r) ==
  /\ r.details.buyTradeFeesUSDC =
       IF FixedShape(getDexCostModel(r.buyDex))
       THEN getDexCostModel(r.buyDex).fixedFeeUSDC
       ELSE Mul(r.details.usdcSpentBeforeFee,
                Div(getDexCostModel(r.buyDex).feeBps, Rat(10000, 1)))
  /\ r.details.sellTradeFeesUSDC =
       IF FixedShape(getDexCostModel(r.sellDex))
       THEN getDexCostModel(r.sellDex).fixedFeeUSDC
       ELSE Mul(r.details.usdcReceivedBeforeFee,
                Div(getDexCostModel(r.sellDex).feeBps, Rat(10000, 1)))
  /\ r.details.usdcSpentAfterFee =
       Add(r.details.usdcSpentBeforeFee, r.details.buyTradeFeesUSDC)
  /\ r.details.usdcReceivedAfterFee =
       Sub(r.details.usdcReceivedBeforeFee, r.details.sellTradeFeesUSDC)
  /\ (r.buyDex = "PancakeSwap"
        => r.details.buyTradeFeesUSDC = pancakeFixedFeeUSDC)
  /\ (r.sellDex = "PancakeSwap"
        => r.details.sellTradeFeesUSDC = pancakeFixedFeeUSDC)

Known(price) == price # Zero

\* C10: a simulation runs only when at least two venues have a known
\* (non-zero) price, and no zero price is an operand of the spreads or of
\* the simulation
C10_NoSimulationOnUnknownPrices ==
  Simulated =>
    /\ Cardinality({v \in Venues : Known(lastPrice[v])}) >= 2
    /\ \A k \in 1..3 : /\ Known(Spreads(lastPrice)[k].price1)
                       /\ Known(Spreads(lastPrice)[k].price2)
    /\ Known(SimPair.price1)
    /\ Known(SimPair.price2)
\* a derived price that cannot be used: zero, infinite or not a number
Unusable(price) == price = Zero \/ ~IsFinite(price)

\* C11: an event cycle whose derived price is zero or otherwise unusable
\* computes no spread and triggers no simulation
C11_NoSimulationOnUnusablePrice ==
  (lastCycle.kind = "swap" /\ Unusable(lastCycle.newPrice)) => ~Simulated
\* C12 as stated: a Swap event whose sample is negative or not an integer
\* is dropped with an error, and the stored prices and the budget are
\* unchanged by it
C12_EventStep ==
  (TripleCycleStep
   /\ (lastCycle'.kind = "error" \/ slot0'[lastCycle'.venue] < 0))
  => /\ lastCycle'.kind = "error"
     /\ errors' = errors + 1
     /\ lastPrice' = lastPrice
     /\ overallBudgetUSDC' = overallBudgetUSDC

C12_InvalidSampleDropped == [][C12_EventStep]_vars

\* a step in which a listener's catch block ran
FailedStep == errors' = errors + 1

\* what a failed event leaves behind
C14_FailedStep ==
  FailedStep =>
    /\ lastCycle'.kind = "error"
    /\ phase' = phase
    /\ lastPrice' = lastPrice
    /\ isInverted' = isInverted
    /\ overallBudgetUSDC' = overallBudgetUSDC
    /\ slot0' = slot0
    /\ IF monitor = "dual"
       THEN /\ events' = events
            /\ \E h \in pending : ~h.served /\ pending' = pending \ {h}
       ELSE /\ events' = events + 1
            /\ pending' = pending

\* C14: an event whose processing fails is dropped without retry: the step
\* only logs the error and removes the failed handler, so the stored
\* prices, the budget, the pools and the other handlers are as if the event
\* had not occurred, and the listeners stay registered for later events
C14_FailedEventDropped == [][C14_FailedStep]_vars

\* after a failed event a later event was processed and stored its price
C14_Witness ==
  /\ errors >= 1
  /\ phase = "monitoring"
  /\ lastCycle.kind = "swap"
  /\ lastCycle.priceChanged
\* the last step applied simulateArbitrageForPair on its own
SimulateCalled == call.fn = "simulateArbitrageForPair"

\* C13: a simulation that names a venue outside the registered set fails
\* with the unknown-venue error, and the budget after the failed call is
\* the budget before it
C13_UnknownVenueFails ==
  (SimulateCalled /\ ({call.dex1Name, call.dex2Name} \ Venues # {})) =>
    /\ Threw(call.result)
    /\ call.result.error = "Unknown DEX"
    /\ overallBudgetUSDC = call.currentBudgetUSDC

\* a failed simulation after a simulation that raised the budget
C13_Witness ==
  /\ SimulateCalled
  /\ call.dex1Name \in Venues
  /\ call.dex2Name \notin Venues
  /\ Threw(call.result)
  /\ Gt(call.currentBudgetUSDC, Rat(2, 1))
\* a simulation of two venues of the cost models at one price
EqualPrices ==
  /\ SimulateCalled
  /\ ~Threw(call.result)
  /\ call.dex1Price = call.dex2Price

\* the two directions of the simulation applied last
CallDirections ==
  BothDirections(call.dex1Name, call.dex1Price, call.dex2Name,
                 call.dex2Price, call.currentBudgetUSDC,
                 getArbTradeSizeUSDC(call.currentBudgetUSDC, budgetPercent))

\* what a direction pays: the two trade fees and the gas
CostsOfDirection(r) ==
  Add(Add(r.details.buyTradeFeesUSDC, r.details.sellTradeFeesUSDC),
      r.details.totalGasCostUSDC)

\* C15 as stated: at equal prices netProfit is strictly negative for both
\* directions and the result is the direction with the less negative one
C15_ZeroSpreadStrictlyNegative ==
  EqualPrices =>
    \A i \in {1, 2} :
      /\ Gt(Zero, CallDirections[i].netProfitUSDC)
      /\ Geq(call.result.netProfitUSDC, CallDirections[i].netProfitUSDC)

\* C15: at equal prices the netProfit of each direction is minus its trade
\* fees and gas, so it is never positive and it is strictly negative whenever
\* a fee or a gas cost is charged, and the result is a direction whose
\* netProfit is not below the other's
C15_ZeroSpreadNeverPositive ==
  EqualPrices =>
    \A i \in {1, 2} :
      /\ CallDirections[i].netProfitUSDC = Neg(CostsOfDirection(CallDirections[i]))
      /\ Geq(Zero, CallDirections[i].netProfitUSDC)
      /\ (Gt(CostsOfDirection(CallDirections[i]), Zero)
            => Gt(Zero, CallDirections[i].netProfitUSDC))
      /\ Geq(call.result.netProfitUSDC, CallDirections[i].netProfitUSDC)

\* two different venues at one price, a positive trade size, a fee and gas
C15_Witness ==
  /\ EqualPrices
  /\ call.dex1Name # call.dex2Name
  /\ Gt(call.result.details.tradeSizeUSDC, Zero)
  /\ Gt(call.result.details.buyTradeFeesUSDC, Zero)
  /\ Gt(call.result.details.totalGasCostUSDC, Zero)
  /\ Gt(Zero, call.result.netProfitUSDC)

\* the spread analysis was applied to the three prices of the example
C16_Example ==
  /\ call.fn = "maxSpreadPair"
  /\ call.prices["Uniswap"] = Rat(90000, 1)
  /\ call.prices["Aerodrome"] = Rat(89900, 1)
  /\ call.prices["PancakeSwap"] = Rat(90200, 1)

\* C16 as stated: for Uniswap = 90000, Aerodrome = 89900 and
\* PancakeSwap = 90200 the selected pair is (Uniswap, PancakeSwap)
C16_SelectsUniswapPancake ==
  C16_Example =>
    call.result.dex1 = "Uniswap" /\ call.result.dex2 = "PancakeSwap"

\* C16: for Uniswap = 90000, Aerodrome = 89900 and PancakeSwap = 90200 the
\* selected pair is (Aerodrome, PancakeSwap), whose spread 300 / 89900 is
\* above those of the other two pairs
C16_SelectsAerodromePancake ==
  C16_Example =>
    /\ call.result.dex1 = "Aerodrome"
    /\ call.result.dex2 = "PancakeSwap"
    /\ call.result.spread = Rat(30000, 89900)
    /\ \A i \in 1..2 : Gt(call.result.spread, Spreads(call.prices)[i].spread)

C16_Witness == C16_Example /\ call.result.dex2 = "PancakeSwap"
\* calculatePrice was applied under given decimals
PriceWithDecimalsCalled == call.fn = "calculatePriceWith"

\* C17 as stated: for a positive sample, the price derived with
\* isInverted = true and decimals (base d0, quote d1) is the reciprocal of
\* the price derived with isInverted = false and decimals (base d1, quote d0)
C17_InversionRoundTrip ==
  (PriceWithDecimalsCalled /\ call.isInverted /\ call.sqrtPriceX96 > 0) =>
    call.result = Inv(calculatePriceWith(call.sqrtPriceX96, FALSE,
                                         call.USDCDec, call.cbBTCDec))

\* the price of token0 in token1 that the documentation gives:
\* (sqrtPriceX96 / 2^96)^2 * (10^decimalsToken0 / 10^decimalsToken1)
DocumentedPrice(sqrtPriceX96, decimalsToken0, decimalsToken1) ==
  BigIntRatio(sqrtPriceX96 * sqrtPriceX96 * Pow(10, decimalsToken0),
              Q96 * Q96 * Pow(10, decimalsToken1))

\* the price calculatePrice holds before its final inversion
BeforeInversion(c) == IF c.isInverted THEN Inv(c.result) ELSE c.result

\* C18 as stated: before the final inversion the derived price is
\* (sqrtPriceX96 / 2^96)^2 * (10^decimalsToken0 / 10^decimalsToken1), with
\* cbBTC as token0 (not inverted) and with cbBTC as token1 (inverted)
C18_DocumentedFormula ==
  PriceWithDecimalsCalled =>
    BeforeInversion(call) =
      IF call.isInverted
      THEN DocumentedPrice(call.sqrtPriceX96, call.USDCDec, call.cbBTCDec)
      ELSE DocumentedPrice(call.sqrtPriceX96, call.cbBTCDec, call.USDCDec)

\* calculatePrice was applied twice in a row without inversion, the second
\* time to a greater sample
IncreasingSamples ==
  /\ call.fn = "calculatePrice"
  /\ call.before.fn = "calculatePrice"
  /\ ~call.isInverted
  /\ ~call.before.isInverted
  /\ call.before.sqrtPriceX96 < call.sqrtPriceX96

\* C19 as stated: without inversion and with decimals 8 and 6, a greater
\* sample derives a strictly greater price
C19_StrictlyIncreasing ==
  IncreasingSamples => Gt(call.result, call.before.result)

\* C19: without inversion and with decimals 8 and 6, a greater sample never
\* derives a smaller price; samples whose squares agree in the digits a
\* Number keeps derive the same price
C19_NonDecreasing ==
  IncreasingSamples => Geq(call.result, call.before.result)

\* a greater sample derived a greater price
C19_Witness ==
  IncreasingSamples /\ Gt(call.result, call.before.result)
\* while the listeners are registered, a step that modifies a venue's
\* stored price processes an event of that venue, and no step modifies
\* isInverted
C20_Step ==
  phase = "monitoring" =>
    /\ isInverted' = isInverted
    /\ \A v \in Venues :
         lastPrice'[v] # lastPrice[v] =>
           /\ TripleCycleStep \/ DualCycleStep
           /\ lastCycle'.kind = "swap"
           /\ lastCycle'.venue = v

\* C20: an event of one venue never modifies the stored price or the
\* isInverted flag of another venue
C20_OtherVenuesUntouched == [][C20_Step]_vars

\* an event stored a new price for its venue while the other venues hold
\* other, known prices
C20_Witness ==
  /\ lastCycle.kind = "swap"
  /\ lastCycle.priceChanged
  /\ lastPrice[lastCycle.venue] = lastCycle.newPrice
  /\ \A v \in Venues \ {lastCycle.venue} :
       lastPrice[v] # Zero /\ lastPrice[v] # lastCycle.newPrice
\* a simulation takes the budget as it stands and sizes its trade on it
C21_Step ==
  SimulationStep =>
    /\ lastCycle'.simulated[1].arbResult.details.currentBudgetUSDC
         = overallBudgetUSDC
    /\ lastCycle'.simulated[1].arbResult.details.tradeSizeUSDC
         = Mul(overallBudgetUSDC, Div(budgetPercent, Rat(100, 1)))

\* C21: the trade notional of every simulation is budgetPct / 100 times the
\* budget as it stands when the simulation runs, which holds the profit of
\* every earlier profitable simulation
C21_NotionalFollowsBudget == [][C21_Step]_vars

\* a listener's simulation sized on a budget that earlier profits raised
C21_Witness ==
  /\ lastCycle.kind = "swap"
  /\ Simulated
  /\ Gt(SimResult.details.currentBudgetUSDC, Rat(2, 1))
  /\ Gt(SimResult.details.tradeSizeUSDC, Rat(2, 1))

\* the absolute spread in percent of price2 over price1
AbsSpread(price1, price2) ==
  MathAbs(Mul(Div(Sub(price2, price1), price1), Rat(100, 1)))

\* C22: the pair selected and simulated in a listener's cycle holds the
\* event's new price for the event's venue and the stored prices of the
\* other venues, and its spread is the one of these prices
C22_SimulationUsesNewPrice ==
  (monitor = "triple" /\ lastCycle.kind = "swap" /\ Simulated) =>
    /\ lastPrice[lastCycle.venue] = lastCycle.newPrice
    /\ SimPair.price1 = lastPrice[SimPair.dex1]
    /\ SimPair.price2 = lastPrice[SimPair.dex2]
    /\ SimPair.spread = AbsSpread(SimPair.price1, SimPair.price2)
    /\ SimResult.details.buyPrice = lastPrice[SimResult.buyDex]
    /\ SimResult.details.sellPrice = lastPrice[SimResult.sellDex]

\* the selected pair contains the event's venue at its new price, next to
\* a venue with another known price
C22_Witness ==
  /\ monitor = "triple"
  /\ lastCycle.kind = "swap"
  /\ Simulated
  /\ lastCycle.venue \in {SimPair.dex1, SimPair.dex2}
  /\ lastCycle.newPrice # Zero
  /\ SimPair.price1 # SimPair.price2
  /\ SimPair.price1 # Zero
  /\ SimPair.price2 # Zero
\* calculatePrice and then calculateAerodromePrice were applied to one
\* sample and one isInverted
SameArguments ==
  /\ call.fn = "calculateAerodromePrice"
  /\ call.before.fn = "calculatePrice"
  /\ call.before.sqrtPriceX96 = call.sqrtPriceX96
  /\ call.before.isInverted = call.isInverted

\* C23: for every raw sample and every isInverted, calculatePrice and
\* calculateAerodromePrice return the same result
C23_OnePriceAlgorithm == SameArguments => call.result = call.before.result

\* both functions inverted the price of a positive sample
C23_Witness ==
  /\ SameArguments
  /\ call.isInverted
  /\ call.sqrtPriceX96 > 0
  /\ IsFinite(call.result)
\* an event of a third venue after a profitable simulation: the pair
\* selected before is selected again at the same two prices
SamePairAgain ==
  /\ TripleCycleStep
  /\ lastCycle.simulated # <<>>
  /\ lastCycle'.simulated # <<>>
  /\ lastCycle.simulated[1].arbResult.isProfitable
  /\ lastCycle'.simulated[1].maxSpreadPair.dex1 = SimPair.dex1
  /\ lastCycle'.simulated[1].maxSpreadPair.dex2 = SimPair.dex2
  /\ lastCycle'.simulated[1].maxSpreadPair.price1 = SimPair.price1
  /\ lastCycle'.simulated[1].maxSpreadPair.price2 = SimPair.price2
  /\ lastCycle'.venue \notin {SimPair.dex1, SimPair.dex2}

C24_Step == SamePairAgain => overallBudgetUSDC' = overallBudgetUSDC

\* C24 as stated: an event of a third venue that leaves the selected pair
\* and both of its prices unchanged does not add the pair's profit to the
\* budget again
C24_CompoundedAtMostOnce == [][C24_Step]_vars
\* a dual listener that stores a price stores the answer of a slot0() call
\* issued after the call whose answer was stored before
C25_Step ==
  (DualCycleStep /\ lastPrice' # lastPrice) =>
    storedRead'[lastCycle'.venue] > storedRead[lastCycle'.venue]

\* C25 as stated: in the dual monitor a venue's stored price is never
\* overwritten with the answer of a slot0() call that was issued earlier than
\* the call whose answer is stored
C25_NoStalePrice == [][C25_Step]_vars
\* no configured fee or gas cost is negative
NonNegativeCosts == \A k \in DOMAIN costs : Geq(costs[k], Zero)

\* a simulation of known venues at positive prices on a positive notional
PositiveSimulation ==
  /\ SimulateCalled
  /\ ~Threw(call.result)
  /\ NonNegativeCosts
  /\ Gt(call.dex1Price, Zero) /\ IsFinite(call.dex1Price)
  /\ Gt(call.dex2Price, Zero) /\ IsFinite(call.dex2Price)
  /\ Gt(call.result.details.tradeSizeUSDC, Zero)

\* a direction judged profitable buys below the price at which it sells
BuysLower(r) ==
  r.isProfitable => Gt(r.details.sellPrice, r.details.buyPrice)

\* C26: with non-negative fees and gas, positive prices and a positive
\* notional, a direction judged profitable buys at the lower price: this
\* holds for both directions and for the returned result
C26_ProfitableBuysLower ==
  PositiveSimulation =>
    /\ BuysLower(call.result)
    /\ \A i \in {1, 2} : BuysLower(CallDirections[i])

\* a profitable result that buys on the venue passed second
C26_Witness ==
  /\ PositiveSimulation
  /\ call.result.isProfitable
  /\ call.result.buyDex = call.dex2Name
  /\ call.dex1Name # call.dex2Name
  /\ Gt(call.dex1Price, call.dex2Price)
\* the order of the three-venue monitor's start: reads in the order Uniswap,
\* Aerodrome, PancakeSwap; the listeners exist only from the step that read
\* the third venue and ran the initial simulation; events are processed only
\* by registered listeners; an exit is final
C27_Step ==
  monitor = "triple" =>
    /\ (events' # events => phase = "monitoring" /\ phase' = "monitoring")
    /\ (phase # "monitoring" /\ phase' = "monitoring") =>
         /\ phase = "pancake"
         /\ lastCycle'.kind = "init"
         /\ lastCycle'.simulated # <<>>
         /\ lastPrice'["PancakeSwap"]
              = PriceOf("PancakeSwap", slot0["PancakeSwap"], usdcIsToken0)
         /\ isInverted' = [v \in Venues |-> usdcIsToken0]
    /\ (phase' = "pancake" /\ phase # "pancake") => phase = "aerodrome"
    /\ (phase' = "aerodrome" /\ phase # "aerodrome") => phase = "uniswap"
    /\ (phase = "exited" => phase' = "exited")
    /\ (phase' = "exited" /\ phase # "exited") =>
         /\ phase \in {"uniswap", "aerodrome", "pancake"}
         /\ events = 0
         /\ lastCycle = NoCycle

\* C27: in the three-venue monitor no event is processed before the token
\* ordering and initial price of all three venues are read and the initial
\* simulation is done, and a failed initialization step exits without the
\* monitoring phase ever being entered
C27_NoEventBeforeInitialization == [][C27_Step]_vars

\* an event was processed after the initialization
C27_Witness ==
  /\ monitor = "triple"
  /\ phase = "monitoring"
  /\ events >= 1
  /\ lastCycle.kind = "swap"
\* C28: in the three-venue monitor, after a processed event the venue's
\* stored price is the price derived from the event's sample or differs from
\* it by at most the threshold
C28_StoredWithinThreshold ==
  (monitor = "triple" /\ lastCycle.kind = "swap") =>
    \/ lastPrice[lastCycle.venue] = lastCycle.newPrice
    \/ Geq(priceChange,
           MathAbs(Sub(lastCycle.newPrice, lastPrice[lastCycle.venue])))

\* an event whose price is not the stored one and was not stored
C28_Witness ==
  /\ monitor = "triple"
  /\ lastCycle.kind = "swap"
  /\ ~lastCycle.priceChanged
  /\ lastPrice[lastCycle.venue] # lastCycle.newPrice
  /\ events = 2
\* with a zero budget or a zero percentage no step changes the budget and no
\* simulation is judged profitable
C29_Step ==
  (NonNegativeCosts /\ (overallBudgetUSDC = Zero \/ budgetPercent = Zero)) =>
    /\ overallBudgetUSDC' = overallBudgetUSDC
    /\ (SimulationStep =>
          /\ ~lastCycle'.simulated[1].arbResult.isProfitable
          /\ ~Gt(lastCycle'.simulated[1].arbResult.netProfitUSDC, Zero))

\* C29: if the initial budget is 0 or the budget percentage is 0, then with
\* non-negative fees and gas no simulation is ever judged profitable and the
\* budget keeps its initial value
C29_NoProfitWithoutNotional == [][C29_Step]_vars

\* a listener simulated two different known prices on a budget of 2 at 0 %
C29_Witness ==
  /\ lastCycle.kind = "swap"
  /\ Simulated
  /\ overallBudgetUSDC = Rat(2, 1)
  /\ budgetPercent = Zero
  /\ SimPair.price1 # SimPair.price2
  /\ IsFinite(SimPair.price1) /\ SimPair.price1 # Zero
  /\ IsFinite(SimPair.price2) /\ SimPair.price2 # Zero

\* the same raw sample is delivered to the venue of the previous event
SameSampleAgain ==
  /\ TripleCycleStep
  /\ lastCycle.kind = "swap"
  /\ lastCycle'.kind = "swap"
  /\ lastCycle'.venue = lastCycle.venue
  /\ slot0'[lastCycle.venue] = slot0[lastCycle.venue]

C30_Step ==
  (Geq(priceChange, Zero) /\ SameSampleAgain) =>
    /\ lastPrice' = lastPrice
    /\ overallBudgetUSDC' = overallBudgetUSDC
    /\ lastCycle'.simulated = <<>>
    /\ ~lastCycle'.priceChanged

\* C30: with a non-negative threshold, the second of two successive events
\* of one venue with the same raw sample changes no stored price and not the
\* budget and triggers no simulation
C30_SameSampleIdempotent == [][C30_Step]_vars

\* the second event of a venue repeated the sample that the first event had
\* stored and simulated
C30_Witness ==
  /\ monitor = "triple"
  /\ events = 2
  /\ lastCycle.kind = "swap"
  /\ ~Simulated
  /\ lastCycle.newPrice = lastPrice[lastCycle.venue]
  /\ lastCycle.newPrice # Zero
  /\ \E v \in Venues \ {lastCycle.venue} :
       lastPrice[v] # lastCycle.newPrice /\ lastPrice[v] # Zero

====
